---- MODULE Spec2Model ----
(***************************************************************************)
(* The MCP tool servers of dev-ruleset:                                    *)
(*   "anthony"     src/unnamed/part_000:1-97   ask-anthony,                *)
(*                                             generate-commit-message     *)
(*   "gemini"      src/unnamed/part_000:99-143 gemini                      *)
(*   "anthonyLite" src/unnamed/part_003:250-299 ask-anthony                *)
(*   "navigator"   src/mcp-servers/fine-tuned/src/navigator.ts             *)
(*                                             agent-query, chat, rag-query*)
(* One process runs one script.  A handler runs on a single-threaded event *)
(* loop: the code between two awaits is one atomic step, and every await   *)
(* of an outbound call is a suspension point at which other invocations    *)
(* may run.  The McpServer library (dispatch, validation, reply) is not    *)
(* part of the sources; it is modelled from the specification's 4.1.       *)
(***************************************************************************)
EXTENDS Integers, Sequences, FiniteSets, TLC

VARIABLES script, env, phase, exitCode, navigatorApiBaseUrl,
          fatalLog, stdoutNoise, inv, registry

vars == <<script, env, phase, exitCode, navigatorApiBaseUrl,
          fatalLog, stdoutNoise, inv, registry>>

\* ------------------------------------------------------------------ bounds
\* Number of invocations the host sends during one run of the process.
MaxInv == 2

\* --------------------------------------------------------------- JS values
Undef == [t |-> "undefined"]
Str(s) == [t |-> "string", v |-> s]
\* A number, held in halves so that a non-integer (1.5 = 3 halves) exists.
Num2(h) == [t |-> "number", v |-> h]
Num(n) == Num2(2 * n)
\* An object is its list of <<key, value>> pairs in insertion order.
Obj(pairs) == [t |-> "object", v |-> pairs]
Arr(items) == [t |-> "array", v |-> items]
JNull == [t |-> "null"]

\* obj.key: the value of the first pair with that key, undefined when absent.
Get(o, key) ==
  IF o.t # "object" THEN Undef
  ELSE IF \E k \in 1..Len(o.v) : o.v[k][1] = key
       THEN o.v[CHOOSE k \in 1..Len(o.v) : o.v[k][1] = key][2]
       ELSE Undef

\* !x of JavaScript for the values an environment variable can hold.
Falsy(x) == x = Undef \/ x = Str("")

\* a || b
OrElse(a, b) == IF Falsy(a) THEN b ELSE a

\* ------------------------------------------------------------- the scripts
Scripts == {"anthony", "gemini", "anthonyLite", "navigator"}

\* Mutant: the one-tool copy of the anthony script keeps both registrations.
Tools_CopyPaste(s) ==
  CASE s \in {"anthony", "anthonyLite"} -> {"ask-anthony", "generate-commit-message"}
    [] s = "gemini" -> {"gemini"}
    [] s = "navigator" -> {"agent-query", "chat", "rag-query"}

\* The names each script registers with server.tool.
Tools(s) ==
  CASE s = "anthony" -> {"ask-anthony", "generate-commit-message"}
    [] s = "anthonyLite" -> {"ask-anthony"}
    [] s = "gemini" -> {"gemini"}
    [] s = "navigator" -> {"agent-query", "chat", "rag-query"}

\* Mutant: the one-tool copy of the anthony script registers its tool twice.
Registrations_Twice(s) ==
  CASE s = "anthony" -> <<"ask-anthony", "generate-commit-message">>
    [] s = "anthonyLite" -> <<"ask-anthony", "ask-anthony">>
    [] s = "gemini" -> <<"gemini">>
    [] s = "navigator" -> <<"agent-query", "chat", "rag-query">>

\* The server.tool calls of each script's module body, in program order.
Registrations(s) ==
  CASE s = "anthony" -> <<"ask-anthony", "generate-commit-message">>
    [] s = "anthonyLite" -> <<"ask-anthony">>
    [] s = "gemini" -> <<"gemini">>
    [] s = "navigator" -> <<"agent-query", "chat", "rag-query">>

\* registerTool: adds a name, and fails when the name is already registered.
RegisterTool(reg, name) ==
  IF ~reg.ok \/ name \in reg.tools THEN [reg EXCEPT !.ok = FALSE]
  ELSE [reg EXCEPT !.tools = @ \cup {name}]

\* The registrations of a module body, one after the other, up to the first
\* that fails.
RECURSIVE RegisterAll(_, _)
RegisterAll(names, reg) ==
  IF names = <<>> THEN reg
  ELSE RegisterAll(Tail(names), RegisterTool(reg, Head(names)))

\* The environment variables a script reads.
EnvVars == {"GEMINI_API_KEY", "GEMINI_API_MODEL", "NAVIGATOR_API_BASE_URL"}

ReadsEnv(s) ==
  CASE s \in {"anthony", "anthonyLite"} -> {"GEMINI_API_KEY", "GEMINI_API_MODEL"}
    [] s = "gemini" -> {}
    [] s = "navigator" -> {"NAVIGATOR_API_BASE_URL"}

EnvSample(var) ==
  CASE var = "GEMINI_API_KEY" -> {Undef, Str("key")}
    [] var = "GEMINI_API_MODEL" -> {Undef, Str("gemini-pro")}
    [] var = "NAVIGATOR_API_BASE_URL" -> {Undef, Str("http://nav/api/v1")}


\* ----------------------------------------------------------- JSON.stringify
RECURSIVE Spaces(_)
Spaces(n) == IF n <= 0 THEN "" ELSE " " \o Spaces(n - 1)

\* The sample strings hold no character that JSON escapes.
Quote(s) == "\"" \o s \o "\""

NumText(h) == IF h % 2 = 0 THEN ToString(h \div 2) ELSE ToString(h \div 2) \o ".5"

RECURSIVE Ser(_, _, _), SerProps(_, _, _, _), SerItems(_, _, _, _)
\* JSON.stringify(x, null, gap) of a defined value, at indentation ind.
Ser(x, gap, ind) ==
  CASE x.t = "string" -> Quote(x.v)
    [] x.t = "number" -> NumText(x.v)
    [] x.t = "object" ->
         LET props == SelectSeq(x.v, LAMBDA p : p[2] # Undef)
         IN  IF props = <<>> THEN "{}"
             ELSE IF gap = 0 THEN "{" \o SerProps(props, 1, gap, ind) \o "}"
             ELSE "{\n" \o SerProps(props, 1, gap, ind + gap)
                        \o "\n" \o Spaces(ind) \o "}"
    [] x.t = "array" ->
         IF x.v = <<>> THEN "[]"
         ELSE IF gap = 0 THEN "[" \o SerItems(x.v, 1, gap, ind) \o "]"
         ELSE "[\n" \o SerItems(x.v, 1, gap, ind + gap)
                    \o "\n" \o Spaces(ind) \o "]"
    [] OTHER -> "null"

SerProps(props, k, gap, ind) ==
  LET sep == IF gap = 0 THEN "," ELSE ",\n"
      colon == IF gap = 0 THEN ":" ELSE ": "
      one == Spaces(IF gap = 0 THEN 0 ELSE ind) \o Quote(props[k][1]) \o colon
                \o Ser(props[k][2], gap, ind)
  IN  IF k = Len(props) THEN one
      ELSE one \o sep \o SerProps(props, k + 1, gap, ind)

SerItems(items, k, gap, ind) ==
  LET sep == IF gap = 0 THEN "," ELSE ",\n"
      one == Spaces(IF gap = 0 THEN 0 ELSE ind) \o Ser(items[k], gap, ind)
  IN  IF k = Len(items) THEN one
      ELSE one \o sep \o SerItems(items, k + 1, gap, ind)

\* JSON.stringify(x, null, gap): undefined for undefined, else a string.
Stringify(x, gap) == IF x = Undef THEN Undef ELSE Str(Ser(x, gap, 0))

\* `${x}` for every sampled kind of value.
TemplateStr(x) ==
  CASE x.t = "string" -> x.v
    [] x.t = "number" -> NumText(x.v)
    [] x.t = "object" -> "[object Object]"
    [] OTHER -> "undefined"


\* ---------------------------------------------------------- input schemas
ModelIdMin == 1
ModelIdMax == 32767

Senders == {"UI", "API", "Mobile", "Bot", "IntegrationTest", "UnitTest"}

GoodUuid == "123e4567-e89b-12d3-a456-426614174000"
\* z.string().uuid() on the sampled strings: of them only GoodUuid has the
\* 8-4-4-4-12 hexadecimal shape.
IsUuid(s) == s = GoodUuid

\* z.string()
ZString(x) == x.t = "string"
\* z.string().min(1)
ZStringMin1(x) == x.t = "string" /\ Len(x.v) >= 1
\* z.string().uuid()
ZUuid(x) == x.t = "string" /\ IsUuid(x.v)
\* z.number().int().min(1).max(32767)
ZModelId(x) ==
  /\ x.t = "number"
  /\ x.v % 2 = 0
  /\ x.v >= 2 * ModelIdMin
  /\ x.v <= 2 * ModelIdMax
\* z.enum([...])
ZSender(x) == x.t = "string" /\ x.v \in Senders

\* { prompt: z.string() }: ask-anthony, generate-commit-message, gemini.
PromptSchemaOk(raw) == ZString(Get(raw, "prompt"))

\* { prompt: z.string().min(1) }: rag-query.
RagSchemaOk(raw) == ZStringMin1(Get(raw, "prompt"))

\* The six-field schema of agent-query and chat.
QuerySchemaOk(raw) ==
  /\ ZUuid(Get(raw, "applicationId"))
  /\ ZModelId(Get(raw, "modelId"))
  /\ ZStringMin1(Get(raw, "prompt"))
  /\ ZSender(Get(raw, "sender"))
  /\ ZStringMin1(Get(raw, "senderId"))
  /\ ZUuid(Get(raw, "userId"))

SchemaOk(tool, raw) ==
  CASE tool \in {"ask-anthony", "generate-commit-message", "gemini"} ->
         PromptSchemaOk(raw)
    [] tool = "rag-query" -> RagSchemaOk(raw)
    [] tool \in {"agent-query", "chat"} -> QuerySchemaOk(raw)
    [] OTHER -> FALSE

\* The keys a tool's schema declares, in the order the handler sends them.
SchemaKeys(tool) ==
  IF tool \in {"agent-query", "chat"}
  THEN <<"applicationId", "modelId", "prompt", "sender", "senderId", "userId">>
  ELSE <<"prompt">>

\* The validated argument object: the declared keys only (zod strips the rest).
Parse(tool, raw) ==
  Obj([k \in 1..Len(SchemaKeys(tool)) |->
         <<SchemaKeys(tool)[k], Get(raw, SchemaKeys(tool)[k])>>])

\* The raw argument objects the host sends.
RawArgs(app, model, prompt, sender, senderId, user) ==
  Obj(<< <<"applicationId", app>>, <<"modelId", model>>, <<"prompt", prompt>>,
         <<"sender", sender>>, <<"senderId", senderId>>, <<"userId", user>> >>)

GoodArgs(prompt, model) ==
  RawArgs(Str(GoodUuid), model, prompt, Str("UI"), Str("sender-1"), Str(GoodUuid))

RawInputs ==
  { GoodArgs(Str("p1"), Num(ModelIdMin)),
    GoodArgs(Str("p2"), Num(ModelIdMax)),
    GoodArgs(Str(""), Num(ModelIdMin)),
    GoodArgs(Undef, Num(ModelIdMin)),
    GoodArgs(Str("p1"), Num(ModelIdMin - 1)),
    GoodArgs(Str("p1"), Num(ModelIdMax + 1)),
    GoodArgs(Str("p1"), Num2(3)),
    RawArgs(Str("not-a-uuid"), Num(ModelIdMin), Str("p1"), Str("UI"),
            Str("sender-1"), Str(GoodUuid)),
    RawArgs(Str(GoodUuid), Num(ModelIdMin), Str("p1"), Str("Desktop"),
            Str("sender-1"), Str(GoodUuid)),
    RawArgs(Str(GoodUuid), Num(ModelIdMin), Str("p1"), Str("UI"),
            Str(""), Str(GoodUuid)),
    RawArgs(Str(GoodUuid), Num(ModelIdMin), Str("p1"), Str("UI"),
            Str("sender-1"), Str("42")) }

\* What the host sends a prompt-only tool: a prompt, the empty prompt and no
\* prompt at all.
PromptInputs ==
  { Obj(<< <<"prompt", Str("p1")>> >>), Obj(<< <<"prompt", Str("")>> >>), Obj(<<>>) }

\* The invocation messages the host may send, <<toolName, rawArguments>>: for
\* every name some script registers, and for one that none does.
Invocations ==
  UNION { {<<"agent-query", raw>>, <<"chat", raw>>} : raw \in RawInputs }
    \cup (({"ask-anthony", "generate-commit-message", "gemini", "rag-query"})
            \X PromptInputs)
    \cup {<<"rag-query", Obj(<< <<"prompt", Str("p2")>> >>)>>}
    \cup {<<"no-such-tool", Obj(<< <<"prompt", Str("p1")>> >>)>>,
          <<"no-such-tool", Obj(<<>>)>>}


\* ------------------------------------------------------------- invocations
\* What an invocation ended with at the handler boundary, or the registry's
\* fault when no handler ran.
NoOutcome == [kind |-> "none", content |-> <<>>, message |-> ""]
Returned(content) == [kind |-> "result", content |-> content, message |-> ""]
Threw(message) == [kind |-> "throw", content |-> <<>>, message |-> message]
Fault(code) == [kind |-> "fault", content |-> <<>>, message |-> code]

TextBlock(text) == [type |-> "text", text |-> text]

\* One invocation: the handler's position and locals, the outbound requests it
\* issued and the responses it got, its console.error and console.log writes,
\* the answers written to the transport for it, and the steps it has taken.
NewInvocation(tool, args) ==
  [tool |-> tool, args |-> args, pc |-> "start", sessionId |-> Undef,
   reqs |-> <<>>, resps |-> <<>>, out |-> NoOutcome,
   logs |-> 0, stdout |-> 0, answers |-> 0, steps |-> <<"Start">>]

\* The handler takes a step.
Step(r, name) == [r EXCEPT !.steps = Append(@, name)]

Request(op, url, body, cred) == [op |-> op, url |-> url, body |-> body, cred |-> cred]

\* The handler issues an outbound call and suspends at pc.
Call(r, pc, req) ==
  [Step(r, "InvokeExternalOperation") EXCEPT !.pc = pc, !.reqs = Append(@, req)]
\* Mutant: the handler ends without returning a value.
Return_NoValue(r, content) == [r EXCEPT !.pc = "returned"]

\* return { content }
Return(r, content) ==
  [Step(Step(r, "BuildResult"), "End") EXCEPT !.pc = "returned",
                                              !.out = Returned(content)]
\* An error leaves the handler.
Throw(r, message) ==
  [Step(r, "End") EXCEPT !.pc = "thrown", !.out = Threw(message)]
\* console.error(...)
LogError(r) == [r EXCEPT !.logs = @ + 1]
\* console.log(...)
LogStdout(r) == [r EXCEPT !.stdout = @ + 1]

\* ---------------------------------------------------- outbound responses
\* How an awaited outbound call ends.  kind: "reject" the call throws an
\* Error, "rejectOther" it throws a non-Error value, "status" an HTTP answer
\* that is not 2xx, "ok" a 2xx answer or a resolved SDK call, "hang" it never
\* completes.  body: the parsed body, Unparseable when json() rejects,
\* TextThrows when response.text() throws.
Unparseable == [t |-> "unparseable"]
TextThrows == [t |-> "textThrows"]
Resp(kind, body) == [kind |-> kind, body |-> body]

\* The call did not deliver a usable 2xx answer.
Failed(resp) ==
  \/ resp.kind \in {"reject", "rejectOther", "status"}
  \/ resp.body = Unparseable
  \/ resp.body = TextThrows


\* ------------------------------------------------------------ ask-anthony
KeyRequiredMessage ==
  "GEMINI_API_KEY environment variable is required. To run the agent set this environment variable. See README."

\* Mutant: the API-key check is missing.
AskAnthonyStart_NoKeyCheck(r) ==
  Call(r, "awaitModel",
       Request("generateContent", OrElse(env["GEMINI_API_MODEL"], Str("")).v,
               Get(r.args, "prompt").v, TemplateStr(env["GEMINI_API_KEY"])))

\* Mutant: a module-level flag remembers that a model call failed, and later
\* invocations give up without calling the model.
AskAnthonyStart_CircuitBreaker(r) ==
  LET apiKey == env["GEMINI_API_KEY"]
      model == OrElse(env["GEMINI_API_MODEL"], Str(""))
      checked == Step(r, "ValidateEnvironment")
  IN  IF Falsy(apiKey) THEN Throw(checked, KeyRequiredMessage)
      ELSE IF \E k \in 1..Len(inv) : inv[k].tool = r.tool /\ inv[k].logs > 0
      THEN Return(checked, <<>>)
      ELSE Call(checked, "awaitModel",
                Request("generateContent", model.v, Get(r.args, "prompt").v, apiKey.v))

\* Up to the first await: the API-key check, then model.generateContent(prompt).
\* Mutant: a missing model identifier is refused like a missing key.
AskAnthonyStart_ModelRequired(r) ==
  LET apiKey == env["GEMINI_API_KEY"]
      model == env["GEMINI_API_MODEL"]
      checked == Step(r, "ValidateEnvironment")
  IN  IF Falsy(apiKey) \/ Falsy(model) THEN Throw(checked, KeyRequiredMessage)
      ELSE Call(checked, "awaitModel",
                Request("generateContent", model.v, Get(r.args, "prompt").v, apiKey.v))

AskAnthonyStart(r) ==
  LET apiKey == env["GEMINI_API_KEY"]
      model == OrElse(env["GEMINI_API_MODEL"], Str(""))
      checked == Step(r, "ValidateEnvironment")
  IN  IF Falsy(apiKey) THEN Throw(checked, KeyRequiredMessage)
      ELSE Call(checked, "awaitModel",
                Request("generateContent", model.v, Get(r.args, "prompt").v, apiKey.v))

\* catch (error): one console.error on either branch, then empty content.
AskAnthonyCatch(r) == Return(LogError(r), <<>>)

\* Mutant: the generated text is returned under a label.
AskAnthonyResume_Labelled(r, resp) ==
  IF Failed(resp) THEN AskAnthonyCatch(r)
  ELSE Return(r, <<TextBlock(Str("Gemini: " \o resp.body.v))>>)

\* From the completion of generateContent to the return.
AskAnthonyResume(r, resp) ==
  IF Failed(resp) THEN AskAnthonyCatch(r)
  ELSE Return(r, <<TextBlock(resp.body)>>)

\* ----------------------------------------------------------------- gemini
GeminiModel == "tunedModels/engineeringagent-kz2tf4jvrlw6"

GeminiStart(r) ==
  Call(r, "awaitModel",
       Request("generateContent", GeminiModel, Get(r.args, "prompt").v, "Placeholder"))

\* No try/catch: a rejected call or a throwing text() leaves the handler.
GeminiResume(r, resp) ==
  IF resp.kind # "ok" THEN Throw(r, "generateContent rejected")
  ELSE IF resp.body = TextThrows THEN Throw(LogStdout(r), "response.text() threw")
  ELSE Return(LogStdout(r), <<TextBlock(resp.body)>>)

\* ------------------------------------------------ generate-commit-message
CommitApiUrl == "https://aip-api.test.rp.foc.zone/swagger/index.html#/Chat"

CommitStart(r) ==
  Call(r, "awaitInitiate",
       Request("POST", CommitApiUrl \o "/post_api_v1_chat_initiatechat",
               Ser(Obj(<< <<"prompt", Get(r.args, "prompt")>> >>), 0, 0), ""))

CommitCatch(r) == Return(LogError(r), <<>>)

\* Mutant: the session identifier is cached at module level and the first one
\* obtained is used by every later invocation.
CommitAfterInitiate_ReuseSession(r, resp) ==
  IF Failed(resp) \/ resp.body = JNull THEN CommitCatch(r)
  ELSE LET own == Get(resp.body, "SessionId")
           cached == {k \in 1..Len(inv) : /\ inv[k].tool = r.tool
                                          /\ inv[k].sessionId # Undef}
           sessionId == IF cached = {} THEN own
                        ELSE inv[CHOOSE k \in cached : \A m \in cached : k <= m].sessionId
       IN  Call([r EXCEPT !.sessionId = own], "awaitFetch",
                Request("GET",
                        CommitApiUrl \o "/get_api_v1_chat_getresponse_"
                                     \o TemplateStr(sessionId),
                        "", ""))

\* From the initiate answer to the fetch request.
CommitAfterInitiate(r, resp) ==
  IF Failed(resp) \/ resp.body = JNull THEN CommitCatch(r)
  ELSE LET sessionId == Get(resp.body, "SessionId")
       IN  Call([r EXCEPT !.sessionId = sessionId], "awaitFetch",
                Request("GET",
                        CommitApiUrl \o "/get_api_v1_chat_getresponse_"
                                     \o TemplateStr(sessionId),
                        "", ""))

\* Mutant: a failed fetch is issued once more before giving up.
CommitAfterFetch_RetryOnce(r, resp) ==
  IF Failed(resp) /\ Len(r.reqs) < 3
  THEN Call(r, "awaitFetch", r.reqs[Len(r.reqs)])
  ELSE IF Failed(resp) \/ resp.body = JNull THEN CommitCatch(r)
  ELSE LET response == Get(resp.body, "response")
       IN  IF response = Undef \/ response = JNull THEN CommitCatch(r)
           ELSE Return(r, <<TextBlock(Get(response, "text"))>>)

\* From the fetch answer to the return: fetchData.response.text.
CommitAfterFetch(r, resp) ==
  IF Failed(resp) \/ resp.body = JNull THEN CommitCatch(r)
  ELSE LET response == Get(resp.body, "response")
       IN  IF response = Undef \/ response = JNull THEN CommitCatch(r)
           ELSE Return(r, <<TextBlock(Get(response, "text"))>>)

\* ------------------------------------------------------------ agent-query
AgentQueryStart(r) ==
  Call(r, "awaitQuery",
       Request("POST", TemplateStr(navigatorApiBaseUrl) \o "/agent/query",
               Ser(r.args, 0, 0), ""))

AgentQueryCatch(r) ==
  Return(LogError(r), <<TextBlock(Str("Error querying Navigator API."))>>)

AgentQueryResume(r, resp) ==
  IF Failed(resp) THEN AgentQueryCatch(r)
  ELSE Return(r, <<TextBlock(Stringify(resp.body, 2))>>)

\* ------------------------------------------------------------------- chat
ChatStart(r) ==
  Call(r, "awaitInitiate",
       Request("POST", TemplateStr(navigatorApiBaseUrl) \o "/chat/initiatechat",
               Ser(r.args, 0, 0), ""))

\* Mutant: the error text names the step that failed.
ChatCatch_NamesStep(r) ==
  Return(LogError(r),
         <<TextBlock(Str(IF Len(r.reqs) = 1 THEN "Failed to initiate chat."
                         ELSE "Failed to fetch chat response."))>>)

ChatCatch(r) ==
  Return(LogError(r), <<TextBlock(Str("Error occurred during the chat process."))>>)

\* Mutant: the field is read under the other tool's spelling.
ChatAfterInitiate_WrongField(r, resp) ==
  IF Failed(resp) \/ resp.body = JNull THEN ChatCatch(r)
  ELSE LET sessionId == Get(resp.body, "SessionId")
       IN  Call([r EXCEPT !.sessionId = sessionId], "awaitFetch",
                Request("GET",
                        TemplateStr(navigatorApiBaseUrl) \o "/chat/getresponse/"
                                                         \o TemplateStr(sessionId),
                        "", ""))

\* Mutant: the status of the initiate answer is not looked at.
ChatAfterInitiate_IgnoresStatus(r, resp) ==
  IF resp.kind \in {"reject", "rejectOther"} \/ resp.body = Unparseable
       \/ resp.body = JNull
  THEN ChatCatch(r)
  ELSE LET sessionId == Get(resp.body, "sessionId")
       IN  Call([r EXCEPT !.sessionId = sessionId], "awaitFetch",
                Request("GET",
                        TemplateStr(navigatorApiBaseUrl) \o "/chat/getresponse/"
                                                         \o TemplateStr(sessionId),
                        "", ""))

\* const { sessionId } = await initiateResponse.json(), then the GET.
ChatAfterInitiate(r, resp) ==
  IF Failed(resp) \/ resp.body = JNull THEN ChatCatch(r)
  ELSE LET sessionId == Get(resp.body, "sessionId")
       IN  Call([r EXCEPT !.sessionId = sessionId], "awaitFetch",
                Request("GET",
                        TemplateStr(navigatorApiBaseUrl) \o "/chat/getresponse/"
                                                         \o TemplateStr(sessionId),
                        "", ""))

ChatAfterFetch(r, resp) ==
  IF Failed(resp) THEN ChatCatch(r)
  ELSE Return(r, <<TextBlock(Stringify(resp.body, 2))>>)

\* -------------------------------------------------------------- rag-query
RagStart(r) ==
  Call(r, "awaitRag",
       Request("POST", TemplateStr(navigatorApiBaseUrl) \o "/rag/query",
               Ser(Obj(<< <<"prompt", Get(r.args, "prompt")>> >>), 0, 0), ""))

RagCatch(r) ==
  Return(LogError(r), <<TextBlock(Str("Error occurred during the RAG query."))>>)

\* Mutant: the references are left out of the text.
RagResume_NoReferences(r, resp) ==
  IF Failed(resp) \/ resp.body = JNull THEN RagCatch(r)
  ELSE Return(r, <<TextBlock(Str(
         "Answer: " \o TemplateStr(Get(resp.body, "answer"))))>>)

RagResume(r, resp) ==
  IF Failed(resp) \/ resp.body = JNull THEN RagCatch(r)
  ELSE Return(r, <<TextBlock(Str(
         "Answer: " \o TemplateStr(Get(resp.body, "answer"))
           \o "\n\nReferences: "
           \o TemplateStr(Stringify(Get(resp.body, "references"), 2))))>>)

\* ------------------------------------------------------------ the handlers
\* The handler registered under r.tool, from its call up to its first await.
HandlerStart(r) ==
  CASE r.tool = "ask-anthony" -> AskAnthonyStart(r)
    [] r.tool = "gemini" -> GeminiStart(r)
    [] r.tool = "generate-commit-message" -> CommitStart(r)
    [] r.tool = "agent-query" -> AgentQueryStart(r)
    [] r.tool = "chat" -> ChatStart(r)
    [] r.tool = "rag-query" -> RagStart(r)

\* The handler resumed by the completion of the call it awaits.
HandlerStep(r, resp) ==
  CASE r.tool = "ask-anthony" -> AskAnthonyResume(r, resp)
    [] r.tool = "gemini" -> GeminiResume(r, resp)
    [] r.tool = "generate-commit-message" /\ r.pc = "awaitInitiate" ->
         CommitAfterInitiate(r, resp)
    [] r.tool = "generate-commit-message" /\ r.pc = "awaitFetch" ->
         CommitAfterFetch(r, resp)
    [] r.tool = "agent-query" -> AgentQueryResume(r, resp)
    [] r.tool = "chat" /\ r.pc = "awaitInitiate" -> ChatAfterInitiate(r, resp)
    [] r.tool = "chat" /\ r.pc = "awaitFetch" -> ChatAfterFetch(r, resp)
    [] r.tool = "rag-query" -> RagResume(r, resp)

Awaiting == {"awaitModel", "awaitInitiate", "awaitFetch", "awaitQuery", "awaitRag"}

\* Mutant: a timer rejects the awaited call when it does not complete.
HandlerResume_Timeout(r, resp) ==
  LET got == [r EXCEPT !.resps = Append(@, resp)]
  IN  IF resp.kind = "hang" THEN HandlerStep(got, Resp("reject", Undef))
      ELSE HandlerStep(got, resp)

\* A call that never completes leaves the handler suspended for good.
HandlerResume(r, resp) ==
  LET got == [r EXCEPT !.resps = Append(@, resp)]
  IN  IF resp.kind = "hang" THEN [got EXCEPT !.pc = "hung"]
      ELSE HandlerStep(got, resp)


\* ------------------------------------------------ the registry (McpServer)
\* The registry writes one message to the transport for a settled invocation:
\* the ToolResult, or a fault.
Reply(r) == IF r.out.kind = "none" THEN r ELSE [r EXCEPT !.answers = @ + 1]

\* connect's handling of one invocation message: look the tool up, validate
\* rawArguments against its schema, then call the handler.
Dispatch(tool, raw) ==
  IF tool \notin registry
  THEN Reply([NewInvocation(tool, Obj(<<>>)) EXCEPT !.pc = "faulted",
                                                    !.out = Fault("unknown tool")])
  ELSE IF ~SchemaOk(tool, raw)
  THEN Reply([NewInvocation(tool, raw) EXCEPT !.pc = "faulted",
                                              !.out = Fault("invalid arguments")])
  ELSE Reply(HandlerStart(NewInvocation(tool, Parse(tool, raw))))

\* ---------------------------------------------- what the outside answers
SessionOf(i) == "session-" \o ToString(i)

ModelResponses(r) ==
  { Resp("reject", Undef), Resp("rejectOther", Undef), Resp("hang", Undef),
    Resp("ok", TextThrows),
    Resp("ok", Str("ECHO: " \o Get(r.args, "prompt").v)) }

HttpFailures ==
  { Resp("reject", Undef), Resp("status", Undef), Resp("hang", Undef),
    Resp("ok", Unparseable) }

InitiateResponses(i) ==
  HttpFailures \cup
  { Resp("ok", Obj(<< <<"SessionId", Str(SessionOf(i))>> >>)),
    Resp("ok", Obj(<< <<"sessionId", Str(SessionOf(i))>> >>)) }

\* The text the outside produces for invocation i, and the body carrying it.
ReplyOf(i) == "reply-" \o ToString(i)
ReplyBody(i) == Obj(<< <<"response", Obj(<< <<"text", Str(ReplyOf(i))>> >>)>> >>)

FetchResponses(i) ==
  HttpFailures \cup
  { Resp("ok", Obj(<<>>)),
    Resp("ok", Obj(<< <<"response", Obj(<<>>)>> >>)),
    Resp("ok", ReplyBody(i)) }

QueryResponses(i) ==
  HttpFailures \cup
  { Resp("ok", Obj(<< <<"answer", Str(ReplyOf(i))>> >>)) }

RagResponses(i) ==
  HttpFailures \cup
  { Resp("ok", Obj(<<>>)),
    Resp("ok", Obj(<< <<"answer", Str("")>>, <<"references", Arr(<<>>)>> >>)),
    Resp("ok", Obj(<< <<"answer", Str("X is Y")>>,
                      <<"references", Arr(<<Str("doc-1"),
                                            Obj(<< <<"id", Num(i)>> >>)>>)>> >>)) }

Responses(r, i) ==
  CASE r.pc = "awaitModel" -> ModelResponses(r)
    [] r.pc = "awaitInitiate" -> InitiateResponses(i)
    [] r.pc = "awaitFetch" -> FetchResponses(i)
    [] r.pc = "awaitQuery" -> QueryResponses(i)
    [] r.pc = "awaitRag" -> RagResponses(i)
    [] OTHER -> {}

\* ------------------------------------------------------------------ state
Init ==
  /\ script \in Scripts
  /\ env \in [EnvVars -> UNION {EnvSample(v) : v \in EnvVars}]
  /\ \A v \in EnvVars :
       env[v] \in (IF v \in ReadsEnv(script) THEN EnvSample(v) ELSE {Undef})
  /\ phase = "load"
  /\ exitCode = -1
  /\ navigatorApiBaseUrl = Undef
  /\ fatalLog = {}
  /\ stdoutNoise = 0
  /\ inv = <<>>
  /\ registry = {}

\* Evaluation of the module body before main(): navigator.ts reads
\* NAVIGATOR_API_BASE_URL and throws when it is missing; then every script
\* registers its tools.  An error thrown here is uncaught and ends the process
\* with status 1.
ModuleLoad ==
  /\ phase = "load"
  /\ IF script = "navigator"
     THEN navigatorApiBaseUrl' = env["NAVIGATOR_API_BASE_URL"]
     ELSE UNCHANGED navigatorApiBaseUrl
  /\ LET registered == RegisterAll(Registrations(script), [ok |-> TRUE, tools |-> {}])
     IN  IF script = "navigator" /\ Falsy(env["NAVIGATOR_API_BASE_URL"])
         THEN /\ phase' = "exited"
              /\ exitCode' = 1
              /\ fatalLog' = fatalLog \cup {"uncaught"}
              /\ UNCHANGED registry
         ELSE IF ~registered.ok
         THEN /\ phase' = "exited"
              /\ exitCode' = 1
              /\ fatalLog' = fatalLog \cup {"uncaught"}
              /\ registry' = registered.tools
         ELSE /\ phase' = "main"
              /\ registry' = Tools(script)
              /\ UNCHANGED <<exitCode, fatalLog>>
  /\ UNCHANGED <<script, env, stdoutNoise, inv>>

\* console.log("\n[Agent Ready]") after connect; gemini uses console.error.
ReadyBanner == IF script = "gemini" THEN 0 ELSE 1

\* Mutant: the catch logs the error and leaves out process.exit(1), so the
\* process ends with status 0.
Main_NoExit(connected) ==
  /\ phase = "main"
  /\ IF connected
     THEN /\ phase' = "serving"
          /\ stdoutNoise' = stdoutNoise + ReadyBanner
          /\ UNCHANGED <<exitCode, fatalLog>>
     ELSE /\ phase' = "exited"
          /\ exitCode' = 0
          /\ fatalLog' = fatalLog \cup {"fatal"}
          /\ UNCHANGED stdoutNoise
  /\ UNCHANGED <<script, env, navigatorApiBaseUrl, inv, registry>>

\* main() and its catch: connect succeeds and the server serves, or connect
\* rejects, the catch logs the fatal error and calls process.exit(1).
Main(connected) ==
  /\ phase = "main"
  /\ IF connected
     THEN /\ phase' = "serving"
          /\ stdoutNoise' = stdoutNoise + ReadyBanner
          /\ UNCHANGED <<exitCode, fatalLog>>
     ELSE /\ phase' = "exited"
          /\ exitCode' = 1
          /\ fatalLog' = fatalLog \cup {"fatal"}
          /\ UNCHANGED stdoutNoise
  /\ UNCHANGED <<script, env, navigatorApiBaseUrl, inv, registry>>

\* The host sends an invocation message.
Invoke(tool, raw) ==
  /\ phase = "serving"
  /\ Len(inv) < MaxInv
  /\ inv' = Append(inv, Dispatch(tool, raw))
  /\ UNCHANGED <<script, env, phase, exitCode, navigatorApiBaseUrl,
                 fatalLog, stdoutNoise, registry>>

\* Mutant: a catch block ends the process, as main's catch does.
Respond_ExitOnFailure(i, resp) ==
  /\ phase = "serving"
  /\ inv[i].pc \in Awaiting
  /\ inv' = [inv EXCEPT ![i] = Reply(HandlerResume(inv[i], resp))]
  /\ IF resp.kind \in {"reject", "rejectOther", "status"}
     THEN phase' = "exited" /\ exitCode' = 1
     ELSE UNCHANGED <<phase, exitCode>>
  /\ UNCHANGED <<script, env, navigatorApiBaseUrl, fatalLog, stdoutNoise, registry>>

\* Mutant: the handler clears the API key from the environment once its call
\* has completed.
Respond_ClearsKey(i, resp) ==
  /\ phase = "serving"
  /\ inv[i].pc \in Awaiting
  /\ inv' = [inv EXCEPT ![i] = Reply(HandlerResume(inv[i], resp))]
  /\ env' = [env EXCEPT !["GEMINI_API_KEY"] = Undef]
  /\ UNCHANGED <<script, phase, exitCode, navigatorApiBaseUrl,
                 fatalLog, stdoutNoise, registry>>

\* Mutant: the handler waits for its call synchronously, so a completion is
\* taken up only when no earlier invocation still awaits its own.
Respond_InOrder(i, resp) ==
  /\ phase = "serving"
  /\ inv[i].pc \in Awaiting
  /\ \A k \in 1..(i - 1) : inv[k].pc \notin Awaiting
  /\ inv' = [inv EXCEPT ![i] = Reply(HandlerResume(inv[i], resp))]
  /\ UNCHANGED <<script, env, phase, exitCode, navigatorApiBaseUrl,
                 fatalLog, stdoutNoise, registry>>

\* An awaited outbound call of invocation i completes and the handler runs to
\* its next await or to its end.
Respond(i, resp) ==
  /\ phase = "serving"
  /\ inv[i].pc \in Awaiting
  /\ inv' = [inv EXCEPT ![i] = Reply(HandlerResume(inv[i], resp))]
  /\ UNCHANGED <<script, env, phase, exitCode, navigatorApiBaseUrl,
                 fatalLog, stdoutNoise, registry>>

\* The host closes the transport and the process ends; its invocations, in
\* flight or settled, end with it.
HostClose ==
  /\ phase = "serving"
  /\ phase' = "closed"
  /\ exitCode' = 0
  /\ inv' = <<>>
  /\ UNCHANGED <<script, env, navigatorApiBaseUrl, fatalLog, stdoutNoise, registry>>

Next ==
  \/ ModuleLoad
  \/ \E connected \in BOOLEAN : Main(connected)
  \/ \E m \in Invocations : Invoke(m[1], m[2])
  \/ \E i \in 1..Len(inv) : \E resp \in Responses(inv[i], i) : Respond(i, resp)
  \/ HostClose

Spec == Init /\ [][Next]_vars


\* A host that closes the transport only when no invocation awaits a call.
HostCloseIdle ==
  /\ \A i \in 1..Len(inv) : inv[i].pc \notin Awaiting
  /\ HostClose

\* What the patient host sends: each registered name with arguments its schema
\* accepts, one refused argument object and one unregistered name.
PatientInvocations ==
  { m \in Invocations :
      \/ m[2] = GoodArgs(Str("p1"), Num(ModelIdMin))
      \/ m[2] = Obj(<< <<"prompt", Str("p1")>> >>)
      \/ m = <<"rag-query", Obj(<<>>)>> }

NextPatient ==
  \/ ModuleLoad
  \/ \E connected \in BOOLEAN : Main(connected)
  \/ \E m \in PatientInvocations : Invoke(m[1], m[2])
  \/ \E i \in 1..Len(inv) : \E resp \in Responses(inv[i], i) : Respond(i, resp)
  \/ HostCloseIdle

\* The event loop runs every callback that is ready: some step is taken as
\* long as one is possible.  Nothing makes an outbound call complete: "hang"
\* is one of the ways a call may end.  The host is patient.
FairSpec == Init /\ [][NextPatient]_vars /\ WF_vars(NextPatient)

\* ================================================================== claims
Ids == 1..Len(inv)

\* The invocations whose handler was called (the others were refused).
Handled(i) == inv[i].pc # "faulted"

\* The last outbound call of invocation i failed: a thrown exception or a
\* status that is not 2xx.
LastCallFailed(i) ==
  /\ inv[i].resps # <<>>
  /\ inv[i].resps[Len(inv[i].resps)].kind \in {"reject", "rejectOther", "status"}

\* C1: for every tool and every input that satisfies the tool's schema, the
\* handler never throws past its boundary: whatever the environment and the
\* outcome of the outbound call, it ends by returning a ToolResult.
C1_HandlerNeverThrows ==
  \A i \in Ids : Handled(i) => inv[i].out.kind # "throw"

\* An input of the kinds C2 lists: an empty prompt, a userId or applicationId
\* that is no UUID, a modelId that is no integer in 1..32767, a sender outside
\* the enumerated set.
C2_Listed(tool, args) ==
  \/ Get(args, "prompt") = Str("")
  \/ /\ tool \in {"agent-query", "chat"}
     /\ \/ ~ZUuid(Get(args, "userId"))
        \/ ~ZUuid(Get(args, "applicationId"))
        \/ ~ZModelId(Get(args, "modelId"))
        \/ ~ZSender(Get(args, "sender"))

\* C2: every input that violates the tool's schema (an empty prompt, a
\* non-UUID userId or applicationId, a modelId that is not an integer in
\* 1..32767, a sender outside the enumerated set) is rejected with an
\* invalid-arguments fault before the handler runs: the invocation makes no
\* outbound call and writes no log.
C2_ViolationsRejected ==
  \A i \in Ids :
    (inv[i].tool \in Tools(script) /\ C2_Listed(inv[i].tool, inv[i].args)) =>
      /\ inv[i].out = Fault("invalid arguments")
      /\ inv[i].reqs = <<>>
      /\ inv[i].logs = 0

\* C3: with the API-key variable unset, invoking the tool that depends on it
\* fails fast with a descriptive error and no outbound call is attempted for
\* that invocation.
C3_NoKeyFailsFast ==
  \A i \in Ids :
    (inv[i].tool = "ask-anthony" /\ Handled(i) /\ env["GEMINI_API_KEY"] = Undef) =>
      /\ inv[i].out.kind = "throw"
      /\ inv[i].out.message = KeyRequiredMessage
      /\ inv[i].reqs = <<>>

C3_Witness ==
  \E i \in Ids :
    /\ inv[i].tool = "ask-anthony"
    /\ env["GEMINI_API_KEY"] = Undef
    /\ inv[i].pc = "thrown"

\* C4: for every tool, when the outbound call fails (a status that is not 2xx
\* or a thrown exception) the tool call returns a ToolResult with an empty
\* content sequence, throws nothing and writes a diagnostic to the error log.
C4_FailureGivesEmptyResult ==
  \A i \in Ids :
    (LastCallFailed(i) /\ inv[i].pc \notin Awaiting) =>
      /\ inv[i].out = Returned(<<>>)
      /\ inv[i].logs >= 1


\* ------------------------------------------------------ the two-step tools
TwoStep == {"generate-commit-message", "chat"}

\* The address of the initiate call and the part of the fetch address that
\* precedes the session identifier, as the two APIs define them.
InitiateUrl(tool) ==
  IF tool = "chat" THEN TemplateStr(env["NAVIGATOR_API_BASE_URL"]) \o "/chat/initiatechat"
  ELSE CommitApiUrl \o "/post_api_v1_chat_initiatechat"

FetchPrefix(tool) ==
  IF tool = "chat" THEN TemplateStr(env["NAVIGATOR_API_BASE_URL"]) \o "/chat/getresponse/"
  ELSE CommitApiUrl \o "/get_api_v1_chat_getresponse_"

\* The field of the initiate answer that carries the session identifier.
SessionField(tool) == IF tool = "chat" THEN "sessionId" ELSE "SessionId"

\* C5: in every invocation of a two-step tool the initiate request is issued
\* before the fetch request, and the session identifier placed in the fetch
\* request is exactly the value the initiate step returned for that
\* invocation.
C5_FetchUsesReturnedSession ==
  \A i \in Ids :
    inv[i].tool \in TwoStep =>
      \A k \in 1..Len(inv[i].reqs) :
        inv[i].reqs[k].op = "GET" =>
          /\ k = 2
          /\ inv[i].reqs[1].op = "POST"
          /\ inv[i].reqs[1].url = InitiateUrl(inv[i].tool)
          /\ Len(inv[i].resps) >= 1
          /\ inv[i].resps[1].kind = "ok"
          /\ inv[i].reqs[k].url =
               FetchPrefix(inv[i].tool)
                 \o TemplateStr(Get(inv[i].resps[1].body, SessionField(inv[i].tool)))

C5_Witness ==
  \E i \in Ids :
    /\ inv[i].tool \in TwoStep
    /\ Len(inv[i].reqs) = 2
    /\ Get(inv[i].resps[1].body, SessionField(inv[i].tool)) = Str(SessionOf(i))
    /\ inv[i].pc = "returned"

\* The body of the first request an invocation of a two-step tool sends, from
\* its own arguments.
OwnInitiateBody(r) ==
  IF r.tool = "chat" THEN Ser(r.args, 0, 0)
  ELSE Ser(Obj(<< <<"prompt", Get(r.args, "prompt")>> >>), 0, 0)

\* OwnInitiateBody for every input a two-step tool's schema accepts, and the
\* serialized reply of every invocation, computed once.
C6_OwnBodies ==
  [m \in {<<x[1], Parse(x[1], x[2])>> :
            x \in {y \in Invocations : y[1] \in TwoStep /\ SchemaOk(y[1], y[2])}} |->
     OwnInitiateBody([tool |-> m[1], args |-> m[2]])]

C6_SerializedReplies == [j \in 1..MaxInv |-> Stringify(ReplyBody(j), 2)]

Slots == 1..MaxInv
Received(i) == i <= Len(inv)
Answered(i) == Received(i) /\ inv[i].answers = 1
Hung(i) == Received(i) /\ inv[i].pc = "hung"

C8_Registered ==
  [anthony |-> {"ask-anthony", "generate-commit-message"},
   anthonyLite |-> {"ask-anthony"},
   gemini |-> {"gemini"},
   navigator |-> {"agent-query", "chat", "rag-query"}]

\* C8: an invocation whose toolName matches no registered tool is answered
\* with an unknown-tool fault and no handler is invoked for it: no outbound
\* call, no log write.
C8_UnknownToolFault ==
  \A i \in Ids :
    inv[i].tool \notin C8_Registered[script] =>
      /\ inv[i].out = Fault("unknown tool")
      /\ inv[i].answers = 1
      /\ inv[i].reqs = <<>>
      /\ inv[i].logs = 0
      /\ inv[i].stdout = 0

C8_Witness ==
  \E i \in Ids : \E j \in Ids :
    /\ inv[i].tool = "no-such-tool"
    /\ inv[j].tool \notin C8_Registered[script] \cup {"no-such-tool"}

\* The variables C9 names as mandatory for a script.
C9_Mandatory(s) ==
  CASE s = "navigator" -> {"NAVIGATOR_API_BASE_URL"}
    [] s \in {"anthony", "anthonyLite"} -> {"GEMINI_API_KEY"}
    [] OTHER -> {}

\* C9: missing mandatory environment configuration is a startup failure: the
\* error is thrown before the server connects and before any invocation is
\* dispatched, and the process exits non-zero.
C9_MissingEnvFailsStartup ==
  (\E v \in C9_Mandatory(script) : env[v] = Undef) =>
    /\ phase \in {"load", "main", "exited"}
    /\ inv = <<>>
    /\ phase = "exited" => exitCode = 1

\* C10: if connecting the transport fails at startup the process logs a fatal
\* message and exits non-zero; once connected it never exits on its own and
\* stays serving until the host closes the transport, whatever invocations it
\* receives.
C10_ExitOnlyAtStartup ==
  /\ [][(phase = "main" /\ phase' # "serving") =>
          (phase' = "exited" /\ exitCode' = 1 /\ "fatal" \in fatalLog')]_vars
  /\ [][phase = "serving" =>
          /\ phase' \in {"serving", "closed"}
          /\ phase' = "serving" => exitCode' = -1
          /\ fatalLog' = fatalLog]_vars
  /\ []("fatal" \in fatalLog => phase = "exited" /\ exitCode = 1)

C10_Witness ==
  /\ phase = "exited"
  /\ exitCode = 1
  /\ "fatal" \in fatalLog

\* ------------------------------------------------- failures and successes
\* The number of outbound calls a tool's handler makes when none fails.
CallsOf(tool) == IF tool \in TwoStep THEN 2 ELSE 1

\* The k-th answer to a tool's outbound calls carries what the handler reads
\* from it: the generated text, the session identifier under the tool's
\* spelling, the response text, the answer with its references.
CarriesExpected(tool, k, body) ==
  CASE tool \in {"ask-anthony", "gemini"} -> body.t = "string"
    [] tool \in TwoStep /\ k = 1 -> Get(body, SessionField(tool)).t = "string"
    [] tool = "generate-commit-message" /\ k = 2 ->
         Get(Get(body, "response"), "text").t = "string"
    [] tool = "rag-query" ->
         Get(body, "answer").t = "string" /\ Get(body, "references").t = "array"
    [] OTHER -> body.t = "object"

\* Some outbound call of invocation i failed: it threw, answered with a status
\* that is not 2xx, or its body could not be read.
FailedCall(i) == \E k \in 1..Len(inv[i].resps) : Failed(inv[i].resps[k])

\* Every outbound call of invocation i succeeded and carried what was expected.
Succeeded(i) ==
  /\ Len(inv[i].resps) = CallsOf(inv[i].tool)
  /\ \A k \in 1..Len(inv[i].resps) :
       /\ inv[i].resps[k].kind = "ok"
       /\ CarriesExpected(inv[i].tool, k, inv[i].resps[k].body)

\* C11: a recoverable failure of an outbound operation never terminates the
\* server process and never leaves the invocation unanswered: whatever
\* invocations have failed, the server is still serving and an invocation
\* whose outbound calls succeed returns its normal success result; the process
\* exits on its own only at startup, before any invocation.
C11_FailureIsSurvived ==
  /\ \A i \in Ids :
       FailedCall(i) =>
         /\ phase = "serving"
         /\ exitCode = -1
         /\ inv[i].answers = 1
         /\ inv[i].pc \in {"returned", "thrown"}
  /\ \A j \in Ids :
       Succeeded(j) =>
         /\ inv[j].out.kind = "result"
         /\ Len(inv[j].out.content) = 1
         /\ inv[j].logs = 0
         /\ inv[j].answers = 1
  /\ phase = "exited" => (inv = <<>> /\ exitCode = 1 /\ fatalLog # {})

\* A failed invocation was answered and a later invocation of the same tool
\* succeeded.
C11_Witness ==
  \E i \in Ids : \E j \in Ids :
    /\ i < j
    /\ inv[j].tool = inv[i].tool
    /\ FailedCall(i)
    /\ inv[i].answers = 1
    /\ Succeeded(j)
    /\ inv[j].pc = "returned"

\* --------------------------------------------------------- success results
\* JSON.stringify(body, null, 2) of the bodies the outside answers invocation
\* i with, written out character by character.
C12_Pretty(body, i) ==
  CASE body = Obj(<<>>) -> "{}"
    [] body = Obj(<< <<"response", Obj(<<>>)>> >>) -> "{\n  \"response\": {}\n}"
    [] body = ReplyBody(i) ->
         "{\n  \"response\": {\n    \"text\": \"" \o ReplyOf(i) \o "\"\n  }\n}"
    [] body = Obj(<< <<"answer", Str(ReplyOf(i))>> >>) ->
         "{\n  \"answer\": \"" \o ReplyOf(i) \o "\"\n}"

\* The text the external operation produced for invocation i: the model's
\* generated text, the response text of the fetched session, the fetched or
\* queried body serialized.
C12_ExternalText(i) ==
  LET r == inv[i]
      last == r.resps[Len(r.resps)].body
  IN  CASE r.tool \in {"ask-anthony", "gemini"} ->
             "ECHO: " \o Get(r.args, "prompt").v
        [] r.tool = "generate-commit-message" -> ReplyOf(i)
        [] r.tool \in {"chat", "agent-query"} -> C12_Pretty(last, i)

\* C12: on success every handler returns a ToolResult with exactly one content
\* block, of kind text, whose payload is the text the external operation
\* produced for that invocation's prompt: for the ask tools the model's
\* generated text unchanged.
C12_SuccessIsOneTextBlock ==
  \A i \in Ids :
    Succeeded(i) =>
      /\ inv[i].out.kind = "result"
      /\ Len(inv[i].out.content) = 1
      /\ inv[i].out.content[1].type = "text"
      /\ inv[i].out.content[1].text.t = "string"
      /\ inv[i].tool # "rag-query" =>
           inv[i].out.content[1].text = Str(C12_ExternalText(i))

\* An ask tool, a two-step tool and a single-call HTTP tool each succeeded.
C12_Witness ==
  \E i \in Ids : \E j \in Ids :
    /\ Succeeded(i) /\ Succeeded(j)
    /\ \/ inv[i].tool = "ask-anthony" /\ inv[j].tool = "generate-commit-message"
       \/ inv[i].tool = "chat" /\ inv[j].tool = "agent-query"
       \/ inv[i].tool = "gemini" /\ inv[j].tool = "gemini"
    /\ inv[i].out.content[1].text = Str(C12_ExternalText(i))
    /\ inv[j].out.content[1].text = Str(C12_ExternalText(j))

\* JSON.stringify(references, null, 2) of the reference lists invocation i is
\* answered with, written out character by character.
C13_RefsText(refs, i) ==
  CASE refs = Arr(<<>>) -> "[]"
    [] refs = Arr(<<Str("doc-1"), Obj(<< <<"id", Num(i)>> >>)>>) ->
         "[\n  \"doc-1\",\n  {\n    \"id\": " \o ToString(i) \o "\n  }\n]"

\* C13: for rag-query, when the endpoint answers 2xx with a body
\* { answer, references }, the result is exactly one text block whose text
\* holds both the answer string and the serialized references list.
C13_RagAnswerAndReferences ==
  \A i \in Ids :
    (inv[i].tool = "rag-query" /\ Succeeded(i)) =>
      LET body == inv[i].resps[1].body
      IN  inv[i].out =
            Returned(<<TextBlock(Str(
              "Answer: " \o Get(body, "answer").v \o "\n\nReferences: "
                \o C13_RefsText(Get(body, "references"), i)))>>)

\* Both sampled bodies were answered: the empty answer with no reference, and
\* an answer with two references.
C13_Witness ==
  \E i \in Ids : \E j \in Ids :
    /\ inv[i].tool = "rag-query" /\ inv[j].tool = "rag-query"
    /\ Succeeded(i) /\ Succeeded(j)
    /\ Get(inv[i].resps[1].body, "references") = Arr(<<>>)
    /\ Len(Get(inv[j].resps[1].body, "references").v) = 2
    /\ inv[i].pc = "returned" /\ inv[j].pc = "returned"

\* ---------------------------------------------------------------- no retry
\* C14: no outbound call is ever retried: a single-call tool issues at most
\* one outbound request per invocation and a two-step tool at most two, one
\* initiate then one fetch, and after a failure at either step no further
\* outbound request is issued for that invocation.
C14_NoRetry ==
  \A i \in Ids :
    LET r == inv[i]
    IN  /\ Len(r.reqs) <= (IF r.tool \in TwoStep THEN 2 ELSE 1)
        /\ Len(r.resps) <= Len(r.reqs)
        /\ Len(r.reqs) <= Len(r.resps) + 1
        /\ r.tool \in TwoStep =>
             \A k \in 1..Len(r.reqs) : r.reqs[k].op = (IF k = 1 THEN "POST" ELSE "GET")
        /\ \A k \in 1..Len(r.resps) :
             (Failed(r.resps[k]) \/ r.resps[k].kind = "hang") =>
               /\ Len(r.reqs) = k
               /\ Len(r.resps) = k
               /\ r.pc \notin Awaiting

\* One invocation of a two-step tool failed at its initiate step and another
\* at its fetch step, and both have ended.
C14_Witness ==
  \E i \in Ids : \E j \in Ids :
    /\ inv[i].tool \in TwoStep /\ inv[j].tool \in TwoStep
    /\ Len(inv[i].resps) = 1 /\ Failed(inv[i].resps[1])
    /\ Len(inv[j].resps) = 2 /\ Failed(inv[j].resps[2])
    /\ inv[i].pc = "returned" /\ inv[j].pc = "returned"

\* ------------------------------------------------------ well-formed results
\* C15: every ToolResult a handler returns, on success and on failure paths
\* alike, is well-formed: its content is a sequence in which every block has
\* kind text and carries a defined string payload, also when the external
\* response body omits the expected field.
C15_ResultWellFormed ==
  \A i \in Ids :
    inv[i].out.kind = "result" =>
      \A b \in 1..Len(inv[i].out.content) :
        /\ inv[i].out.content[b].type = "text"
        /\ inv[i].out.content[b].text.t = "string"

\* ---------------------------------------------------------- malformed bodies
\* A 2xx answer of invocation i had a malformed body: not parseable, or parsed
\* but without the field the handler reads from it.
MalformedBody(i) ==
  \E k \in 1..Len(inv[i].resps) :
    LET resp == inv[i].resps[k]
    IN  /\ resp.kind = "ok"
        /\ resp.body # TextThrows
        /\ \/ resp.body = Unparseable
           \/ ~CarriesExpected(inv[i].tool, k, resp.body)

\* C16: a malformed response body from the outbound operation is treated as a
\* recoverable failure: it is caught inside the handler, logged to the error
\* stream, and yields a ToolResult with empty content rather than a success
\* result; the handler goes no further with it.
C16_MalformedBodyIsFailure ==
  \A i \in Ids :
    MalformedBody(i) =>
      /\ inv[i].pc = "returned"
      /\ inv[i].out = Returned(<<>>)
      /\ inv[i].logs = 1

\* ------------------------------------------------------------ the registry
\* C17: tool names are unique within each server's registry: no script
\* registers two tools under the same name, registering an already-registered
\* name fails as a startup configuration error, and the set of registered
\* tools does not change after the server connects to the transport.
C17_RegistryUniqueAndFixed ==
  /\ [](Cardinality({Registrations(script)[k] : k \in 1..Len(Registrations(script))})
          = Len(Registrations(script)))
  /\ [](phase \in {"main", "serving", "closed"} =>
          /\ registry = {Registrations(script)[k] : k \in 1..Len(Registrations(script))}
          /\ \A name \in registry :
               ~RegisterTool([ok |-> TRUE, tools |-> registry], name).ok)
  /\ [][phase # "load" => registry' = registry]_vars
  /\ [](\A i \in Ids : Handled(i) => inv[i].tool \in registry)

\* A connected server with more than one tool has dispatched two of them.
C17_Witness ==
  \E i \in Ids : \E j \in Ids :
    /\ phase = "serving"
    /\ Cardinality(registry) >= 2
    /\ Handled(i) /\ Handled(j)
    /\ inv[i].tool # inv[j].tool

\* ------------------------------------------------------- the handler steps
C18_Rank(step) ==
  CASE step = "Start" -> 0
    [] step = "ValidateEnvironment" -> 1
    [] step = "InvokeExternalOperation" -> 2
    [] step = "BuildResult" -> 3
    [] step = "End" -> 4

C18_Count(steps, name) == Cardinality({k \in 1..Len(steps) : steps[k] = name})

\* C18: every invocation of every handler follows the order Start,
\* Validate-Environment, Invoke-External-Operation, then exactly one of
\* Build-Success-Result or Build-Error-Result, then End: the environment check
\* precedes the first outbound call, an invocation that reached its external
\* operation builds exactly one result, and no step is taken after End.
C18_StepOrder ==
  \A i \in Ids :
    Handled(i) =>
      LET st == inv[i].steps
      IN  /\ st[1] = "Start"
          /\ \A a \in 1..Len(st) : \A b \in 1..Len(st) :
               a < b =>
                 /\ C18_Rank(st[a]) <= C18_Rank(st[b])
                 /\ C18_Rank(st[a]) = C18_Rank(st[b]) => st[a] = "InvokeExternalOperation"
          /\ inv[i].tool = "ask-anthony" => (Len(st) >= 2 /\ st[2] = "ValidateEnvironment")
          /\ C18_Count(st, "InvokeExternalOperation") = Len(inv[i].reqs)
          /\ (st[Len(st)] = "End") <=> (inv[i].pc \in {"returned", "thrown"})
          /\ (st[Len(st)] = "End" /\ inv[i].reqs # <<>>) =>
               C18_Count(st, "BuildResult") = 1

\* ---------------------------------------------------- no state is retained
\* C19: no handler retains state between invocations: what an invocation
\* sends, logs and returns is determined by its own input, the environment
\* configuration and the responses to its own outbound calls, and is the same
\* whatever earlier invocations, successful or failed, the server processed:
\* two invocations of a tool with the same input start with the same request,
\* and with the same answers to their calls they send, log and return the
\* same.
C19_NoRetainedState ==
  \A i \in Ids : \A j \in Ids :
    (i < j /\ Handled(i) /\ Handled(j) /\ inv[i].tool = inv[j].tool
       /\ inv[i].args = inv[j].args) =>
      /\ (inv[i].reqs = <<>>) <=> (inv[j].reqs = <<>>)
      /\ inv[i].reqs # <<>> => inv[i].reqs[1] = inv[j].reqs[1]
      /\ inv[i].resps = inv[j].resps =>
           /\ inv[i].out = inv[j].out
           /\ inv[i].reqs = inv[j].reqs
           /\ inv[i].logs = inv[j].logs
           /\ inv[i].stdout = inv[j].stdout
           /\ inv[i].pc = inv[j].pc

\* Two invocations of a tool, one after the other, got the same input and the
\* same good answer, and both have returned.
C19_Witness ==
  \E i \in Ids : \E j \in Ids :
    /\ i < j
    /\ inv[i].tool = inv[j].tool
    /\ inv[i].args = inv[j].args
    /\ inv[i].resps = inv[j].resps
    /\ Succeeded(i)
    /\ inv[i].pc = "returned"
    /\ inv[j].pc = "returned"

\* -------------------------------------------------------- the environment
\* The path a navigator tool's first request adds to the base address.
C20_Path(tool) ==
  CASE tool = "agent-query" -> "/agent/query"
    [] tool = "chat" -> "/chat/initiatechat"
    [] tool = "rag-query" -> "/rag/query"

\* C20: the environment configuration is never mutated after startup: no
\* handler and no step of any invocation writes an environment value, so every
\* invocation, also concurrently interleaved ones, observes the same
\* configuration values.
C20_EnvNeverMutated ==
  /\ [][env' = env]_vars
  /\ [][phase # "load" => navigatorApiBaseUrl' = navigatorApiBaseUrl]_vars
  /\ [](\A i \in Ids :
          inv[i].reqs # <<>> =>
            /\ inv[i].tool = "ask-anthony" =>
                 /\ Str(inv[i].reqs[1].cred) = env["GEMINI_API_KEY"]
                 /\ inv[i].reqs[1].url =
                      (IF env["GEMINI_API_MODEL"] = Undef THEN ""
                       ELSE env["GEMINI_API_MODEL"].v)
            /\ inv[i].tool \in {"agent-query", "chat", "rag-query"} =>
                 /\ env["NAVIGATOR_API_BASE_URL"] # Undef
                 /\ inv[i].reqs[1].url =
                      env["NAVIGATOR_API_BASE_URL"].v \o C20_Path(inv[i].tool))

\* Two invocations that read the configuration were interleaved: the second
\* started and ended while the first awaited its call.
C20_Witness ==
  /\ Len(inv) = 2
  /\ inv[1].tool \in {"ask-anthony", "agent-query", "chat", "rag-query"}
  /\ inv[2].tool = inv[1].tool
  /\ inv[1].pc \in Awaiting
  /\ inv[1].resps = <<>>
  /\ inv[2].pc = "returned"
  /\ inv[2].resps # <<>>

\* -------------------------------------------------------------- suspension
\* C21: an invocation suspended on its outbound call does not block other
\* work: while one invocation awaits its network response, at the single call
\* or at either leg of the two-step exchange, a later invocation can be
\* dispatched, and one that awaits its own call can take up the completion
\* and be answered first.
C21_SuspensionDoesNotBlock ==
  \A i \in Ids :
    inv[i].pc \in Awaiting =>
      /\ Len(inv) < MaxInv =>
           ENABLED (\E m \in Invocations : Invoke(m[1], m[2]))
      /\ \A j \in Ids :
           (i < j /\ inv[j].pc \in Awaiting) =>
             ENABLED (\E resp \in Responses(inv[j], j) :
                        /\ resp.kind = "ok"
                        /\ Respond(j, resp)
                        /\ inv'[j].answers = 1 \/ inv'[j].pc \in Awaiting
                        /\ inv'[i] = inv[i])

\* While the first invocation of a two-step tool still awaits the answer to
\* its fetch, a later one has made both its calls and has been answered.
C21_Witness ==
  \E i \in Ids : \E j \in Ids :
    /\ i < j
    /\ inv[i].pc = "awaitFetch"
    /\ Len(inv[i].resps) = 1
    /\ Len(inv[j].reqs) = 2
    /\ Len(inv[j].resps) = 2
    /\ inv[j].answers = 1

\* C22: no handler imposes a timeout or cancellation: an invocation whose
\* outbound call never completes stays in flight for as long as the process
\* lives and is never answered with a result or a fault, and the handler takes
\* no step on its own: only the completion of the awaited call moves it.
C22_HungStaysInFlight ==
  /\ [](\A i \in Ids :
          (inv[i].resps # <<>> /\ inv[i].resps[Len(inv[i].resps)].kind = "hang") =>
            /\ inv[i].pc = "hung"
            /\ inv[i].answers = 0
            /\ inv[i].out = NoOutcome
            /\ inv[i].logs = 0)
  /\ [][\A i \in Ids :
          inv[i].pc = "hung" =>
            \/ phase' = "closed"
            \/ i <= Len(inv') /\ inv'[i] = inv[i]]_vars
  /\ [][\A i \in Ids :
          (inv[i].pc \in Awaiting /\ i <= Len(inv') /\ inv'[i] # inv[i]) =>
            Len(inv'[i].resps) = Len(inv[i].resps) + 1]_vars

\* An invocation hangs on its call while a later one has come, made its call
\* and been answered.
C22_Witness ==
  \E i \in Ids : \E j \in Ids :
    /\ i < j
    /\ inv[i].pc = "hung"
    /\ inv[i].answers = 0
    /\ inv[j].resps # <<>>
    /\ inv[j].answers = 1

\* ------------------------------------------------- the two steps, once more
\* C23: in a two-step tool, when the initiate step fails (a status that is not
\* 2xx, a thrown exception, an unparseable body) the fetch step is never
\* issued for that invocation: exactly one outbound request is made and the
\* invocation ends on the error path, through the catch block.
C23_InitiateFailureEndsIt ==
  \A i \in Ids :
    (inv[i].tool \in TwoStep /\ inv[i].resps # <<>> /\ Failed(inv[i].resps[1])) =>
      /\ Len(inv[i].reqs) = 1
      /\ inv[i].reqs[1].op = "POST"
      /\ Len(inv[i].resps) = 1
      /\ inv[i].sessionId = Undef
      /\ inv[i].pc = "returned"
      /\ inv[i].logs = 1
      /\ inv[i].steps = <<"Start", "InvokeExternalOperation", "BuildResult", "End">>

\* One invocation of a two-step tool had its initiate call answered with a
\* failing status, another with a body that cannot be parsed.
C23_Witness ==
  \E i \in Ids : \E j \in Ids :
    /\ inv[i].tool \in TwoStep /\ inv[j].tool \in TwoStep
    /\ Len(inv[i].resps) = 1 /\ inv[i].resps[1].kind = "status"
    /\ Len(inv[j].resps) = 1 /\ inv[j].resps[1].body = Unparseable
    /\ inv[i].pc = "returned" /\ inv[j].pc = "returned"

\* The field of the initiate answer each two-step handler reads.
C24_SessionField(tool) ==
  IF tool = "generate-commit-message" THEN "SessionId" ELSE "sessionId"

\* C24: the fetch step is issued only when the initiate response carried a
\* session identifier: whenever a two-step invocation has made its second
\* request, the body of its initiate answer held the field the handler reads,
\* and the request was not built from an undefined identifier.
C24_FetchOnlyWithSession ==
  \A i \in Ids :
    (inv[i].tool \in TwoStep /\ Len(inv[i].reqs) = 2) =>
      /\ Get(inv[i].resps[1].body, C24_SessionField(inv[i].tool)) # Undef
      /\ inv[i].sessionId # Undef

\* --------------------------------------------------------------- stdout
\* C25: standard output carries only protocol messages: from startup onward,
\* after the transport is connected and while handlers run, the program
\* writes no other text to it.
C25_StdoutIsProtocolOnly ==
  /\ stdoutNoise = 0
  /\ \A i \in Ids : inv[i].stdout = 0

\* ------------------------------------------------ the optional model name
\* An ask-anthony invocation that ran with the key set and no model name.
C26_KeyOnly(i) ==
  /\ inv[i].tool = "ask-anthony"
  /\ Handled(i)
  /\ ~Falsy(env["GEMINI_API_KEY"])
  /\ env["GEMINI_API_MODEL"] = Undef

C27_NavigatorTools == {"agent-query", "chat", "rag-query"}

\* The literal each navigator catch block returns.
C27_Message(tool) ==
  CASE tool = "agent-query" -> "Error querying Navigator API."
    [] tool = "chat"        -> "Error occurred during the chat process."
    [] tool = "rag-query"   -> "Error occurred during the RAG query."

\* The catch block of invocation i has run.
C27_Caught(i) == inv[i].pc = "returned" /\ (FailedCall(i) \/ inv[i].logs > 0)

\* C27: each navigator tool (agent-query, chat, rag-query), on any caught
\* failure, returns exactly one text block carrying the fixed message of the
\* tool, whatever the cause and whatever the input, and writes one entry to
\* the error stream.
C27_FixedErrorText ==
  \A i \in Ids :
    (inv[i].tool \in C27_NavigatorTools /\ C27_Caught(i)) =>
      /\ inv[i].out = Returned(<<TextBlock(Str(C27_Message(inv[i].tool)))>>)
      /\ inv[i].logs = 1
      /\ inv[i].stdout = 0

\* Two chat invocations with different inputs failed at different steps, one
\* at initiate and one at fetch, and were answered with the same result.
C27_Witness ==
  \E i \in Ids : \E j \in Ids :
    /\ inv[i].tool = "chat" /\ inv[j].tool = "chat"
    /\ inv[i].args # inv[j].args
    /\ C27_Caught(i) /\ Len(inv[i].reqs) = 1
    /\ C27_Caught(j) /\ Len(inv[j].reqs) = 2
    /\ inv[i].resps[1].kind # inv[j].resps[2].kind
    /\ inv[i].out = inv[j].out

\* ------------------------------------------------------ the ask variants
C28_AskTools == {"ask-anthony", "gemini"}

\* What a handler outcome shows to its caller: thrown or not, and the blocks.
C28_Seen(out) == <<out.kind, out.content>>

\* The outcome each variant's handler builds for a prompt and an answer of
\* the outbound call.
C28_AskAnthony(args, resp) ==
  C28_Seen(AskAnthonyResume(NewInvocation("ask-anthony", args), resp).out)

C28_Gemini(args, resp) ==
  C28_Seen(GeminiResume(NewInvocation("gemini", args), resp).out)

\* C28: the variants exposing a single-call ask tool (ask-anthony in both
\* scripts, gemini) are one flow: on the same prompt and the same outcome of
\* the outbound model call, every ended invocation of either tool has the
\* ToolResult and the thrown/not-thrown outcome that each of the variants
\* builds.
C28_AskVariantsAgree ==
  \A i \in Ids :
    (/\ inv[i].tool \in C28_AskTools
     /\ inv[i].resps # <<>>
     /\ inv[i].resps[1].kind # "hang") =>
      /\ C28_Seen(inv[i].out) = C28_AskAnthony(inv[i].args, inv[i].resps[1])
      /\ C28_Seen(inv[i].out) = C28_Gemini(inv[i].args, inv[i].resps[1])

====
